---- MODULE Spec2Model ----
(***************************************************************************)
(* Model of the three scripts of the repository:                           *)
(*   kill_port.py            - the Port Reaper (find and kill by port)     *)
(*   start_server.py         - the tool-backed launcher (npx http-server)  *)
(*   start_server_python.py  - the built-in launcher (http.server)         *)
(*                                                                         *)
(* Text is modelled as sequences of one-character strings, so that         *)
(* str(), int(), str.lower(), str.isdigit() and the substring test `in`    *)
(* are computed as Python computes them.  An optional value (None or a     *)
(* value) is the empty sequence or a one-element sequence.                 *)
(***************************************************************************)
EXTENDS Integers, Sequences, FiniteSets, TLC

VARIABLES
    pc,            \* position of the running script
    trace,         \* external calls made so far, in order: [ev, arg]
    out,           \* messages printed by the script's own print() calls
    exitCode,      \* exit status of the process, <<>> while it runs
    system,        \* platform.system()
    args,          \* sys.argv[1:], each argument a text
    port,          \* kill_port.main: port;  find_process_on_port: port
    pid,           \* result of find_process_on_port
    info,          \* result of get_process_info
    response,      \* the text read by input()
    killRes,       \* outcome and result of the kill_process call
    socks,         \* the sockets of the machine, in netstat's order
    tool,          \* how the socket-listing tool behaves
    start_port,    \* find_free_port: start_port
    max_attempts,  \* find_free_port: max_attempts
    i,             \* find_free_port: loop index
    env,           \* what a connect to each port does (fixed network)
    free_port,     \* result of find_free_port
    probes,        \* the probes made so far: [port, outcome, free]
    variant,       \* which launcher runs: "node" or "python"
    PORT,          \* the launchers' global PORT
    environ,       \* os.environ['PORT']
    browser        \* the browser-open thread: "none", "sleeping", "opened"

vars == <<pc, trace, out, exitCode, system, args, port, pid, info, response,
          killRes, socks, tool, start_port, max_attempts, i, env, free_port,
          probes, variant, PORT, environ, browser>>

reaperVars == <<args, port, pid, info, response, killRes>>
lookupVars == <<socks, tool>>
searchVars == <<start_port, max_attempts, i, env, free_port, probes>>
launchVars == <<variant, PORT, environ, browser>>

(***************************************************************************)
(* Bounds of the model.                                                    *)
(***************************************************************************)
MaxResponseLen == 2    \* length of the operator's answers
MaxArgLen == 2         \* length of the command-line argument
MaxSocks == 2          \* sockets listed by the tool
MaxTries == 3          \* largest max_attempts given to find_free_port

(***************************************************************************)
(* Optional values.                                                        *)
(***************************************************************************)
None == <<>>

Some(x) == <<x>>

\* Python truthiness of an optional integer: None and 0 are false.
Truthy(x) == x # None /\ x[1] # 0

(***************************************************************************)
(* Text.                                                                   *)
(***************************************************************************)
DigitChars == <<"0", "1", "2", "3", "4", "5", "6", "7", "8", "9">>

DigitSet == {DigitChars[k] : k \in 1..10}

DigitVal(c) == (CHOOSE k \in 1..10 : DigitChars[k] = c) - 1

RECURSIVE Digits(_)
Digits(n) ==
    IF n < 10 THEN <<DigitChars[n + 1]>>
    ELSE Digits(n \div 10) \o <<DigitChars[(n % 10) + 1]>>

\* str(n) / f'{n}'
str(n) == IF n < 0 THEN <<"-">> \o Digits(0 - n) ELSE Digits(n)

\* str.isdigit()
isdigit(t) == t # <<>> /\ \A k \in 1..Len(t) : t[k] \in DigitSet

RECURSIVE DigitsValue(_)
DigitsValue(t) ==
    IF t = <<>> THEN 0
    ELSE 10 * DigitsValue(SubSeq(t, 1, Len(t) - 1)) + DigitVal(t[Len(t)])

\* int(text): the value, or None where Python raises ValueError
int(t) ==
    IF isdigit(t) THEN Some(DigitsValue(t))
    ELSE IF Len(t) >= 2 /\ t[1] = "-" /\ isdigit(Tail(t))
         THEN Some(0 - DigitsValue(Tail(t)))
    ELSE IF Len(t) >= 2 /\ t[1] = "+" /\ isdigit(Tail(t))
         THEN Some(DigitsValue(Tail(t)))
    ELSE None

\* needle in hay
IsSubstr(needle, hay) ==
    \E k \in 0..(Len(hay) - Len(needle)) :
        SubSeq(hay, k + 1, k + Len(needle)) = needle

LowerChar(c) ==
    CASE c = "Y" -> "y"
      [] c = "N" -> "n"
      [] c = "E" -> "e"
      [] c = "S" -> "s"
      [] OTHER -> c

\* str.lower()
lower(t) == [k \in 1..Len(t) |-> LowerChar(t[k])]

\* All texts over an alphabet up to a length
TextsUpTo(alphabet, n) == UNION {[1..k -> alphabet] : k \in 0..n}

(***************************************************************************)
(* kill_port.py: the tools' output.  A socket is [local, remote, state,    *)
(* pid].  `netstat -ano` prints a header and one line per socket; a line   *)
(* is the sequence of its whitespace-separated fields.  `lsof -ti :port`   *)
(* prints the pids of the processes that have an internet socket whose     *)
(* local or remote port is the port, in any state, one per line.           *)
(***************************************************************************)
SockPorts == {8, 80}

RemotePorts == {0, 8}

SockStates == {"LISTENING", "ESTABLISHED"}

Pids == {4, 7}

Sockets == [local : SockPorts, remote : RemotePorts, state : SockStates, pid : Pids]

SockTables == UNION {[1..k -> Sockets] : k \in 0..MaxSocks}

Systems == {"Windows", "Linux"}

\* the tool runs, prints something else than expected, is not installed, hangs
Tools == {"ok", "garbled", "missing", "timeout"}

addr(p) == <<"0", ".", "0", ".", "0", ".", "0", ":">> \o str(p)

NetstatHeader ==
    << <<"Proto">>, <<"Local">>, <<"Address">>, <<"Foreign">>, <<"Address">>,
       <<"State">>, <<"PID">> >>

NetstatLine(s) ==
    << <<"TCP">>, addr(s.local), addr(s.remote), <<s.state>>, str(s.pid) >>

GarbledLine(s) ==
    << <<"TCP">>, addr(s.local), addr(s.remote), <<s.state>>, <<"?">> >>

\* result.stdout.split('\n') of `netstat -ano`
netstat(t, table) ==
    <<NetstatHeader>> \o
    [k \in 1..Len(table) |->
        IF t = "garbled" THEN GarbledLine(table[k]) ELSE NetstatLine(table[k])]

RECURSIVE LsofPids(_, _, _)
LsofPids(table, p, seen) ==
    IF table = <<>> THEN <<>>
    ELSE LET s == Head(table)
             hit == (s.local = p \/ s.remote = p) /\ s.pid \notin seen
         IN  (IF hit THEN <<s.pid>> ELSE <<>>) \o
             LsofPids(Tail(table), p, IF hit THEN seen \cup {s.pid} ELSE seen)

RECURSIVE JoinLines(_)
JoinLines(ls) ==
    IF ls = <<>> THEN <<>>
    ELSE IF Len(ls) = 1 THEN ls[1]
    ELSE ls[1] \o <<"\n">> \o JoinLines(Tail(ls))

\* [returncode, stdout.strip()] of `lsof -ti :port`
lsof(t, table, p) ==
    LET pids == LsofPids(table, p, {})
    IN  IF t = "garbled" THEN [returncode |-> 0, stdout |-> <<"?">>]
        ELSE [returncode |-> IF pids = <<>> THEN 1 ELSE 0,
              stdout |-> JoinLines([k \in 1..Len(pids) |-> str(pids[k])])]

(***************************************************************************)
(* kill_port.find_process_on_port                                          *)
(***************************************************************************)
\* f':{port}' in line, 'LISTENING' in line
InLine(needle, line) == \E k \in 1..Len(line) : IsSubstr(needle, line[k])

\* the test of kill_port.py line 38
LineMatches(line, p) ==
    InLine(<<":">> \o str(p), line) /\ InLine(<<"LISTENING">>, line)

\* the loop of kill_port.py lines 37-43
RECURSIVE ScanNetstat(_, _)
ScanNetstat(lines, p) ==
    IF lines = <<>> THEN None
    ELSE LET line == Head(lines)
         IN  IF LineMatches(line, p) /\ Len(line) > 0 /\ isdigit(line[Len(line)])
             THEN Some(DigitsValue(line[Len(line)]))
             ELSE ScanNetstat(Tail(lines), p)

\* [ret, printed]: the value returned and the messages printed
find_process_on_port(sys, p, t, table) ==
    IF sys = "Windows"
    THEN IF t \in {"missing", "timeout"}
         THEN [ret |-> None, printed |-> <<"lookup_error">>]
         ELSE [ret |-> ScanNetstat(netstat(t, table), p), printed |-> <<>>]
    ELSE IF t = "missing"
         THEN [ret |-> None, printed |-> <<"lsof_not_found">>]
    ELSE IF t = "timeout"
         THEN [ret |-> None, printed |-> <<"lookup_error">>]
    ELSE LET result == lsof(t, table, p)
         IN  IF result.returncode = 0 /\ result.stdout # <<>>
             THEN IF int(result.stdout) # None
                  THEN [ret |-> int(result.stdout), printed |-> <<>>]
                  ELSE [ret |-> None, printed |-> <<"lookup_error">>]
             ELSE [ret |-> None, printed |-> <<>>]

(***************************************************************************)
(* kill_port.get_process_info.  The tool's outcome is [kind, returncode,   *)
(* fields]: fields is stdout.strip() split as the code splits it (by '","' *)
(* on Windows, by the first whitespace elsewhere), empty for no output.    *)
(***************************************************************************)
InfoOutcomes ==
    { [kind |-> "raises", returncode |-> 0, fields |-> <<>>],
      [kind |-> "ok", returncode |-> 1, fields |-> <<>>],
      [kind |-> "ok", returncode |-> 0, fields |-> <<>>],
      [kind |-> "ok", returncode |-> 0, fields |-> <<"python">>],
      [kind |-> "ok", returncode |-> 0, fields |-> <<"python", "python -m http.server">>] }

get_process_info(sys, p, o) ==
    IF o.kind = "raises"
    THEN [ret |-> None, printed |-> <<"info_error">>]
    ELSE IF o.returncode = 0 /\ o.fields # <<>>
    THEN IF sys = "Windows"
         THEN IF Len(o.fields) >= 2
              THEN [ret |-> Some([name |-> o.fields[1], pid |-> p,
                                  path |-> o.fields[Len(o.fields)]]),
                    printed |-> <<>>]
              ELSE [ret |-> None, printed |-> <<>>]
         ELSE [ret |-> Some([name |-> o.fields[1], pid |-> p,
                             path |-> IF Len(o.fields) > 1 THEN o.fields[2] ELSE "N/A"]),
               printed |-> <<>>]
    ELSE [ret |-> None, printed |-> <<>>]

(***************************************************************************)
(* kill_port.kill_process.  The termination command exits with status 0,   *)
(* exits with another status (CalledProcessError), does not end within the *)
(* timeout (TimeoutExpired) or cannot be started (OSError).                *)
(***************************************************************************)
KillOutcomes == {"exit0", "nonzero", "timeout", "oserror"}

\* a variant of kill_process: the command is run without check=True
kill_process_NoCheck(sys, p, o) ==
    CASE o \in {"exit0", "nonzero"} -> [ret |-> TRUE, printed |-> <<>>, raised |-> FALSE]
      [] OTHER -> [ret |-> FALSE, printed |-> <<"kill_error">>, raised |-> FALSE]

\* [ret, printed, raised]
kill_process(sys, p, o) ==
    CASE o = "exit0" -> [ret |-> TRUE, printed |-> <<>>, raised |-> FALSE]
      [] o = "nonzero" -> [ret |-> FALSE, printed |-> <<>>, raised |-> FALSE]
      [] OTHER -> [ret |-> FALSE, printed |-> <<"kill_error">>, raised |-> FALSE]

(***************************************************************************)
(* kill_port.main, one action per external call it makes.                  *)
(***************************************************************************)
ReaperDefaultPort == 8000

ArgChars == {"8", "0", "-", "x"}

ArgTexts == TextsUpTo(ArgChars, MaxArgLen) \cup {<<"7", "0", "0", "0", "0">>}

ArgLists == {<<>>} \cup {<<t>> : t \in ArgTexts}

ResponseChars == {"y", "Y", "n", " "}

Responses == TextsUpTo(ResponseChars, MaxResponseLen) \cup {<<"y", "e", "s">>}

\* what a TCP connect attempt does: connect_ex returns 0, returns an errno
\* (refused, timed out), or one of the three socket calls raises
ProbeOutcomes ==
    {"connected", "refused", "timeout",
     "socket_raises", "settimeout_raises", "connect_raises"}

RaisingOutcomes == {"socket_raises", "settimeout_raises", "connect_raises"}

\* the value of sock.connect_ex(...)
connect_ex(o) ==
    CASE o = "connected" -> 0
      [] o = "refused" -> 111
      [] OTHER -> 11

ValidPort(p) == p \in 0..65535

NoKill == [outcome |-> "none", ret |-> FALSE, printed |-> <<>>, raised |-> FALSE]

Event(e, a) == [ev |-> e, arg |-> a]

\* an unhandled exception: the interpreter prints a traceback and exits 1
Fault == pc' = "fault" /\ exitCode' = Some(1)

\* main returns: the trailing print("") and exit status 0
Return(msgs) ==
    /\ out' = out \o msgs \o <<"blank">>
    /\ pc' = "done"
    /\ exitCode' = Some(0)

\* a variant of Affirmative: the answer is compared without lower()
Affirmative_NoLower(r) == r = <<"y">>

\* response.lower() == 'y'
Affirmative(r) == lower(r) = <<"y">>

\* kill_port.py lines 126-132
ParseArgs ==
    /\ pc = "start"
    /\ LET v == IF Len(args) > 0 THEN int(args[1]) ELSE Some(ReaperDefaultPort)
       IN  IF v = None
           THEN Fault /\ UNCHANGED <<port, out>>
           ELSE /\ port' = v[1]
                /\ out' = out \o <<"banner">>
                /\ pc' = "probe"
                /\ UNCHANGED exitCode
    /\ UNCHANGED <<trace, system, args, pid, info, response, killRes>>
    /\ UNCHANGED <<lookupVars, searchVars, launchVars>>

\* kill_port.py lines 135-142 and 166-169: the probe is not guarded
Probe(o) ==
    /\ pc = "probe"
    /\ ~ValidPort(port) => o = "connect_raises"
    /\ port = 0 => o # "connected"
    /\ trace' = Append(trace, Event("probe", port))
    /\ IF o \in RaisingOutcomes
       THEN Fault /\ UNCHANGED out
       ELSE IF connect_ex(o) = 0
       THEN /\ out' = out \o <<"port_busy">>
            /\ pc' = "lookup_pid"
            /\ UNCHANGED exitCode
       ELSE Return(<<"port_free">>)
    /\ UNCHANGED <<system, reaperVars, lookupVars, searchVars, launchVars>>

\* kill_port.py lines 143-145 and 164-165
LookupPid(t, table) ==
    /\ pc = "lookup_pid"
    /\ LET r == find_process_on_port(system, port, t, table)
       IN  /\ pid' = r.ret
           /\ trace' = Append(trace, Event("find_process_on_port", port))
           /\ IF Truthy(r.ret)
              THEN /\ out' = out \o r.printed
                   /\ pc' = "lookup_info"
                   /\ UNCHANGED exitCode
              ELSE Return(r.printed \o <<"not_found">>)
    /\ UNCHANGED <<system, args, port, info, response, killRes>>
    /\ UNCHANGED <<lookupVars, searchVars, launchVars>>

\* a variant of LookupInfo: main asks without testing `if info`
LookupInfo_NoCheck(o) ==
    /\ pc = "lookup_info"
    /\ LET r == get_process_info(system, pid[1], o)
       IN  /\ info' = r.ret
           /\ trace' = Append(trace, Event("get_process_info", pid[1]))
           /\ out' = out \o r.printed \o <<"found_process">>
           /\ pc' = "confirm"
           /\ UNCHANGED exitCode
    /\ UNCHANGED <<system, args, port, pid, response, killRes>>
    /\ UNCHANGED <<lookupVars, searchVars, launchVars>>

\* kill_port.py lines 146-152 and 162-163
LookupInfo(o) ==
    /\ pc = "lookup_info"
    /\ LET r == get_process_info(system, pid[1], o)
       IN  /\ info' = r.ret
           /\ trace' = Append(trace, Event("get_process_info", pid[1]))
           /\ IF r.ret # None
              THEN /\ out' = out \o r.printed \o <<"found_process">>
                   /\ pc' = "confirm"
                   /\ UNCHANGED exitCode
              ELSE Return(r.printed \o <<"no_info">>)
    /\ UNCHANGED <<system, args, port, pid, response, killRes>>
    /\ UNCHANGED <<lookupVars, searchVars, launchVars>>

\* kill_port.py lines 154-155 and 160-161: input() returns a line
Confirm(r) ==
    /\ pc = "confirm"
    /\ response' = Some(r)
    /\ trace' = Append(trace, Event("input", 0))
    /\ IF Affirmative(r)
       THEN pc' = "kill" /\ UNCHANGED <<out, exitCode>>
       ELSE Return(<<"cancelled">>)
    /\ UNCHANGED <<system, args, port, pid, info, killRes>>
    /\ UNCHANGED <<lookupVars, searchVars, launchVars>>

\* kill_port.py line 154: input() meets the end of the input (EOFError)
ConfirmEOF ==
    /\ pc = "confirm"
    /\ trace' = Append(trace, Event("input", 0))
    /\ Fault
    /\ UNCHANGED <<out, system, reaperVars, lookupVars, searchVars, launchVars>>

\* kill_port.py lines 156-159
Kill(o) ==
    /\ pc = "kill"
    /\ LET r == kill_process(system, pid[1], o)
       IN  /\ killRes' = [outcome |-> o, ret |-> r.ret, printed |-> r.printed,
                          raised |-> r.raised]
           /\ trace' = Append(trace, Event("kill_process", pid[1]))
           /\ IF r.raised
              THEN Fault /\ UNCHANGED out
              ELSE Return(r.printed \o
                          <<IF r.ret THEN "ok_killed" ELSE "error_kill">>)
    /\ UNCHANGED <<system, args, port, pid, info, response>>
    /\ UNCHANGED <<lookupVars, searchVars, launchVars>>

IdleLookup == socks = <<>> /\ tool = "ok"

IdleSearch ==
    /\ start_port = 0
    /\ max_attempts = 0
    /\ i = 0
    /\ env = <<>>
    /\ free_port = None
    /\ probes = <<>>

IdleLaunch == variant = "none" /\ PORT = 0 /\ environ = None /\ browser = "none"

IdleReaper ==
    /\ args = <<>>
    /\ info = None
    /\ response = None
    /\ killRes = NoKill

Init ==
    /\ pc = "start"
    /\ trace = <<>>
    /\ out = <<>>
    /\ exitCode = None
    /\ system \in Systems
    /\ args \in ArgLists
    /\ port = 0
    /\ pid = None
    /\ info = None
    /\ response = None
    /\ killRes = NoKill
    /\ IdleLookup
    /\ IdleSearch
    /\ IdleLaunch

Next ==
    \/ ParseArgs
    \/ \E o \in ProbeOutcomes : Probe(o)
    \/ \E t \in Tools, table \in SockTables : LookupPid(t, table)
    \/ \E o \in InfoOutcomes : LookupInfo(o)
    \/ \E r \in Responses : Confirm(r)
    \/ ConfirmEOF
    \/ \E o \in KillOutcomes : Kill(o)

Spec == Init /\ [][Next]_vars

(***************************************************************************)
(* find_process_on_port applied to every port, platform, socket table and  *)
(* tool behaviour within the bounds.                                       *)
(***************************************************************************)
InitLookup ==
    /\ pc = "call"
    /\ trace = <<>>
    /\ out = <<>>
    /\ exitCode = None
    /\ system \in Systems
    /\ port \in SockPorts
    /\ socks \in SockTables
    /\ tool \in Tools
    /\ pid = None
    /\ IdleReaper
    /\ IdleSearch
    /\ IdleLaunch

CallLookup ==
    /\ pc = "call"
    /\ LET r == find_process_on_port(system, port, tool, socks)
       IN  pid' = r.ret /\ out' = r.printed
    /\ pc' = "returned"
    /\ UNCHANGED <<trace, exitCode, system, args, port, info, response, killRes>>
    /\ UNCHANGED <<lookupVars, searchVars, launchVars>>

NextLookup == CallLookup

SpecLookup == InitLookup /\ [][NextLookup]_vars

(***************************************************************************)
(* start_server.py, start_server_python.py: check_port_available and       *)
(* find_free_port (the same code in both files).                           *)
(***************************************************************************)
DEFAULT_PORT == 8000

DefaultMaxAttempts == 10

\* a variant of check_port_available: an error counts as occupied
check_port_available_FailClosed(o) ==
    IF o \in RaisingOutcomes
    THEN [ret |-> FALSE, raised |-> FALSE]
    ELSE [ret |-> connect_ex(o) # 0, raised |-> FALSE]

\* [ret, raised].  sock.close(), the fourth call inside the try, is taken
\* to succeed: a failing close of a fresh socket is not among the outcomes.
check_port_available(o) ==
    IF o \in RaisingOutcomes
    THEN [ret |-> TRUE, raised |-> FALSE]
    ELSE [ret |-> connect_ex(o) # 0, raised |-> FALSE]

ProbeRecord(p, o, r) == [port |-> p, outcome |-> o, free |-> r.ret]

\* a variant of ProbedPort: the scan starts one port too high
ProbedPort_OffByOne == start_port + i + 1

\* port = start_port + i
ProbedPort == start_port + i

\* one iteration of the loop of find_free_port, the connect doing o
SearchStep(o) ==
    /\ pc = "search"
    /\ i < max_attempts
    /\ LET p == ProbedPort
           r == check_port_available(o)
       IN  /\ probes' = Append(probes, ProbeRecord(p, o, r))
           /\ trace' = Append(trace, Event("probe", p))
           /\ IF r.raised
              THEN Fault /\ UNCHANGED <<i, free_port>>
              ELSE IF r.ret
              THEN /\ free_port' = Some(p)
                   /\ pc' = "searched"
                   /\ UNCHANGED <<i, exitCode>>
              ELSE /\ i' = i + 1
                   /\ UNCHANGED <<pc, free_port, exitCode>>
    /\ UNCHANGED <<out, system, start_port, max_attempts, env>>
    /\ UNCHANGED <<reaperVars, lookupVars, launchVars>>

\* the loop of find_free_port ends: return None
SearchExhausted ==
    /\ pc = "search"
    /\ i >= max_attempts
    /\ free_port' = None
    /\ pc' = "searched"
    /\ UNCHANGED <<trace, out, exitCode, system, start_port, max_attempts, i, env, probes>>
    /\ UNCHANGED <<reaperVars, lookupVars, launchVars>>

(***************************************************************************)
(* find_free_port applied on a fixed network: env[p] is what a connect to  *)
(* port p does.                                                            *)
(***************************************************************************)
StartPorts == {DEFAULT_PORT, DEFAULT_PORT + 1}

SearchPorts == DEFAULT_PORT..(DEFAULT_PORT + MaxTries + 1)

\* what a connect to a port of the fixed network does
NetOutcomes == {"connected", "refused", "timeout", "connect_raises"}

InitSearch ==
    /\ pc = "search"
    /\ trace = <<>>
    /\ out = <<>>
    /\ exitCode = None
    /\ system = "Linux"
    /\ port = 0
    /\ pid = None
    /\ IdleReaper
    /\ IdleLookup
    /\ IdleLaunch
    /\ start_port \in StartPorts
    /\ max_attempts \in 0..MaxTries
    /\ i = 0
    /\ env \in [SearchPorts -> NetOutcomes]
    /\ free_port = None
    /\ probes = <<>>

NextSearch ==
    \/ SearchStep(env[ProbedPort])
    \/ SearchExhausted

SpecSearch == InitSearch /\ [][NextSearch]_vars

(***************************************************************************)
(* The launchers: start_server() of start_server.py (variant "node") and   *)
(* of start_server_python.py (variant "python").  The network is not       *)
(* fixed while a launcher runs: each probe may meet any outcome.           *)
(***************************************************************************)
Variants == {"node", "python"}

\* `node --version` exits 0, exits otherwise, is not found, hangs, or
\* cannot be executed for another reason (an OSError that is not caught)
NodeOutcomes == {"ok", "nonzero", "not_found", "timeout", "oserror"}

\* a variant of check_node_installed: the exit status is not looked at
check_node_installed_AnyStatus(o) ==
    CASE o \in {"ok", "nonzero"} ->
            [ret |-> TRUE, printed |-> <<"node_version">>, raised |-> FALSE]
      [] o = "oserror" -> [ret |-> FALSE, printed |-> <<>>, raised |-> TRUE]
      [] OTHER -> [ret |-> FALSE, printed |-> <<"node_missing">>, raised |-> FALSE]

\* [ret, printed, raised]
check_node_installed(o) ==
    CASE o = "ok" -> [ret |-> TRUE, printed |-> <<"node_version">>, raised |-> FALSE]
      [] o = "oserror" -> [ret |-> FALSE, printed |-> <<>>, raised |-> TRUE]
      [] OTHER -> [ret |-> FALSE, printed |-> <<"node_missing">>, raised |-> FALSE]

\* sys.exit(code) after printing msgs
Exit(msgs, code) ==
    /\ out' = out \o msgs
    /\ pc' = "done"
    /\ exitCode' = Some(code)

\* start_server.py lines 105-107
CheckNode(o) ==
    /\ pc = "check_node"
    /\ variant = "node"
    /\ trace' = Append(trace, Event("node_check", o))
    /\ LET r == check_node_installed(o)
       IN  IF r.raised
           THEN Fault /\ UNCHANGED out
           ELSE IF r.ret
           THEN /\ out' = out \o r.printed
                /\ pc' = "probe_default"
                /\ UNCHANGED exitCode
           ELSE Exit(r.printed, 1)
    /\ UNCHANGED <<system, port, pid, reaperVars, lookupVars, searchVars, launchVars>>

\* start_server.py lines 110-114, 124-125; start_server_python.py lines 96-100, 108-109
ProbeDefault(o) ==
    /\ pc = "probe_default"
    /\ LET r == check_port_available(o)
       IN  /\ probes' = Append(probes, ProbeRecord(DEFAULT_PORT, o, r))
           /\ trace' = Append(trace, Event("probe", DEFAULT_PORT))
           /\ IF r.raised
              THEN Fault /\ UNCHANGED <<out, PORT, start_port, max_attempts, i>>
              ELSE IF ~r.ret
              THEN /\ out' = out \o <<"port_busy", "searching">>
                   /\ start_port' = DEFAULT_PORT
                   /\ max_attempts' = DefaultMaxAttempts
                   /\ i' = 0
                   /\ pc' = "search"
                   /\ UNCHANGED <<PORT, exitCode>>
              ELSE /\ PORT' = DEFAULT_PORT
                   /\ pc' = "launch"
                   /\ UNCHANGED <<out, exitCode, start_port, max_attempts, i>>
    /\ UNCHANGED <<system, port, pid, reaperVars, lookupVars, env, free_port>>
    /\ UNCHANGED <<variant, environ, browser>>

\* a variant of Resolve: the port found is announced but PORT is not set
Resolve_KeepsDefault ==
    /\ pc = "searched"
    /\ variant \in Variants
    /\ IF Truthy(free_port)
       THEN /\ out' = out \o <<"found_free_port">>
            /\ pc' = "launch"
            /\ UNCHANGED <<exitCode, PORT, environ>>
       ELSE Exit(<<"no_free_port">>, 1) /\ UNCHANGED <<PORT, environ>>
    /\ UNCHANGED <<trace, system, port, pid, reaperVars, lookupVars, searchVars>>
    /\ UNCHANGED <<variant, browser>>

\* start_server.py lines 115-123; start_server_python.py lines 101-107
Resolve ==
    /\ pc = "searched"
    /\ variant \in Variants
    /\ IF Truthy(free_port)
       THEN /\ PORT' = free_port[1]
            /\ environ' = IF variant = "node" THEN Some(str(free_port[1])) ELSE environ
            /\ out' = out \o <<"found_free_port">>
            /\ pc' = "launch"
            /\ UNCHANGED exitCode
       ELSE Exit(<<"no_free_port">>, 1) /\ UNCHANGED <<PORT, environ>>
    /\ UNCHANGED <<trace, system, port, pid, reaperVars, lookupVars, searchVars>>
    /\ UNCHANGED <<variant, browser>>

\* start_server.py lines 128-135: the header, then the browser thread
StartBrowserNode ==
    /\ pc = "launch"
    /\ variant = "node"
    /\ out' = out \o <<"header", "starting">>
    /\ browser' = "sleeping"
    /\ trace' = Append(trace, Event("thread_start", PORT))
    /\ pc' = "run_npx"
    /\ UNCHANGED <<exitCode, system, port, pid, reaperVars, lookupVars, searchVars>>
    /\ UNCHANGED <<variant, PORT, environ>>

\* `npx http-server -p PORT` serves, exits with a non-zero status
\* (CalledProcessError), or cannot be started (an OSError that is not caught)
NpxOutcomes == {"serving", "failed", "not_found"}

\* start_server.py lines 139-146
RunNpx(o) ==
    /\ pc = "run_npx"
    /\ trace' = Append(Append(trace, Event("launch", PORT)),
                       Event(IF o = "serving" THEN "launched" ELSE "launch_failed", PORT))
    /\ CASE o = "serving" -> pc' = "serving" /\ UNCHANGED <<out, exitCode>>
         [] o = "failed" -> Exit(<<"launch_error">>, 1)
         [] OTHER -> Fault /\ UNCHANGED out
    /\ UNCHANGED <<system, port, pid, reaperVars, lookupVars, searchVars, launchVars>>

\* start_server.py lines 147-149: Ctrl+C while npx serves
InterruptNode ==
    /\ pc = "serving"
    /\ variant = "node"
    /\ trace' = Append(trace, Event("interrupt", PORT))
    /\ Exit(<<"stopped_by_user">>, 0)
    /\ UNCHANGED <<system, port, pid, reaperVars, lookupVars, searchVars, launchVars>>

\* start_server.py line 143: npx ends with status 0 and start_server returns
NpxEnds ==
    /\ pc = "serving"
    /\ variant = "node"
    /\ trace' = Append(trace, Event("server_exit", PORT))
    /\ Exit(<<>>, 0)
    /\ UNCHANGED <<system, port, pid, reaperVars, lookupVars, searchVars, launchVars>>

BindOutcomes == {"bound", "oserror"}

\* start_server_python.py lines 112-123: HTTPServer(...) binds and listens
Bind(o) ==
    /\ pc = "launch"
    /\ variant = "python"
    /\ trace' = Append(Append(trace, Event("launch", PORT)),
                       Event(IF o = "bound" THEN "launched" ELSE "launch_failed", PORT))
    /\ IF o = "bound"
       THEN /\ out' = out \o <<"header", "starting">>
            /\ pc' = "bound"
            /\ UNCHANGED exitCode
       ELSE Exit(<<"header", "starting", "launch_error">>, 1)
    /\ UNCHANGED <<system, port, pid, reaperVars, lookupVars, searchVars, launchVars>>

\* start_server_python.py lines 125-130
StartBrowserPython ==
    /\ pc = "bound"
    /\ browser' = "sleeping"
    /\ trace' = Append(trace, Event("thread_start", PORT))
    /\ out' = out \o <<"server_started">>
    /\ pc' = "serving"
    /\ UNCHANGED <<exitCode, system, port, pid, reaperVars, lookupVars, searchVars>>
    /\ UNCHANGED <<variant, PORT, environ>>

\* start_server_python.py lines 132-139: Ctrl+C in serve_forever
InterruptPython ==
    /\ pc = "serving"
    /\ variant = "python"
    /\ trace' = Append(trace, Event("interrupt", PORT))
    /\ Exit(<<"stopping", "stopped">>, 0)
    /\ UNCHANGED <<system, port, pid, reaperVars, lookupVars, searchVars, launchVars>>

\* open_browser: the daemon thread wakes up while the process still runs
OpenBrowser ==
    /\ browser = "sleeping"
    /\ exitCode = None
    /\ browser' = "opened"
    /\ trace' = Append(trace, Event("browser_open", PORT))
    /\ UNCHANGED <<pc, out, exitCode, system, port, pid>>
    /\ UNCHANGED <<reaperVars, lookupVars, searchVars, variant, PORT, environ>>

InitLauncher ==
    /\ variant \in Variants
    /\ pc = IF variant = "node" THEN "check_node" ELSE "probe_default"
    /\ trace = <<>>
    /\ out = <<>>
    /\ exitCode = None
    /\ system = "Linux"
    /\ port = 0
    /\ pid = None
    /\ IdleReaper
    /\ IdleLookup
    /\ IdleSearch
    /\ PORT = DEFAULT_PORT
    /\ environ = None
    /\ browser = "none"

NextLauncher ==
    \/ \E o \in NodeOutcomes : CheckNode(o)
    \/ \E o \in ProbeOutcomes : ProbeDefault(o)
    \/ \E o \in ProbeOutcomes : SearchStep(o)
    \/ SearchExhausted
    \/ Resolve
    \/ StartBrowserNode
    \/ \E o \in NpxOutcomes : RunNpx(o)
    \/ InterruptNode
    \/ NpxEnds
    \/ \E o \in BindOutcomes : Bind(o)
    \/ StartBrowserPython
    \/ InterruptPython
    \/ OpenBrowser

SpecLauncher == InitLauncher /\ [][NextLauncher]_vars

(***************************************************************************)
(* Properties.                                                             *)
(***************************************************************************)
Happened(e) == \E k \in DOMAIN trace : trace[k].ev = e

Printed(m) == \E k \in DOMAIN out : out[k] = m

Ended == exitCode # None

Min(S) == CHOOSE x \in S : \A y \in S : x <= y

Max(S) == CHOOSE x \in S : \A y \in S : x >= y

\* C1 as stated: with the port occupied, a pid and the process info found,
\* kill_process is invoked only when the answer is exactly 'y'; every other
\* answer ('Y', 'yes', ' y', '', ...) aborts and kill_process is not invoked.
C1_ExactToken ==
    /\ Happened("kill_process") => response = Some(<<"y">>)
    /\ (response # None /\ response # Some(<<"y">>)) =>
           (pc = "done" /\ Printed("cancelled") /\ ~Happened("kill_process"))

\* C1 amended: kill_process is invoked exactly when the answer, lowercased,
\* is 'y', that is for 'y' and for 'Y'; every other answer aborts and
\* kill_process is not invoked.
C1_CaseInsensitiveToken ==
    response # None =>
        IF response[1] \in {<<"y">>, <<"Y">>}
        THEN (pc = "kill" /\ ~Ended) \/ Happened("kill_process")
        ELSE pc = "done" /\ Printed("cancelled") /\ ~Happened("kill_process")

C1_Witness ==
    /\ Happened("kill_process")
    /\ response = Some(<<"Y">>)
    /\ info # None

\* C2: find_free_port returns the smallest port of
\* start_port..start_port+max_attempts-1 that the probe reports free, None
\* exactly when the probe reports every port of the range occupied, and it
\* probes the ports in increasing order from start_port.
C2_FirstFreePort ==
    LET range == start_port..(start_port + max_attempts - 1)
        free == {p \in range : check_port_available(env[p]).ret}
    IN  /\ \A k \in DOMAIN probes : probes[k].port = start_port + k - 1
        /\ pc = "searched" =>
               IF free = {} THEN free_port = None
               ELSE free_port = Some(Min(free))

C2_Witness ==
    /\ pc = "searched"
    /\ free_port = Some(start_port + 2)
    /\ Len(probes) = 3

Terminals ==
    {{"port_free"}, {"not_found"}, {"cancelled"}, {"ok_killed", "error_kill"}}

Reached(T) == {t \in T : \E m \in t : Printed(m)}

Asked == Happened("input")

\* C3 as stated, for the runs main completes: whenever the pid lookup finds
\* a pid the run has reached CONFIRM, and the run ended in exactly one of
\* REPORT_FREE, REPORT_NOT_FOUND, ABORT or the report after KILL.
C3_FourOutcomes ==
    pc = "done" =>
        /\ Truthy(pid) => Asked
        /\ Cardinality(Reached(Terminals)) = 1

ReaperOrder ==
    <<"probe", "find_process_on_port", "get_process_info", "input", "kill_process">>

\* C3 amended: the calls of a run are a prefix of PROBE, LOOKUP_PID,
\* LOOKUP_INFO, CONFIRM, KILL; the operator is asked only after a pid and
\* its info were found, and is asked in every ended run where both were
\* found; a run that exits with status 0 ends in exactly one of
\* REPORT_FREE, REPORT_NOT_FOUND, REPORT_NO_INFO (pid found but no info:
\* no confirmation), ABORT or the report after KILL, and every other run
\* ends in an unhandled exception with none of them reported.
C3_FiveOutcomes ==
    /\ Len(trace) <= Len(ReaperOrder)
    /\ \A k \in DOMAIN trace : trace[k].ev = ReaperOrder[k]
    /\ Asked => (Truthy(pid) /\ info # None)
    /\ Ended =>
           /\ (Truthy(pid) /\ info # None) => Asked
           /\ IF exitCode = Some(0)
              THEN pc = "done" /\ Cardinality(Reached(Terminals \cup {{"no_info"}})) = 1
              ELSE pc = "fault" /\ Reached(Terminals \cup {{"no_info"}}) = {}

C3_Witness ==
    /\ exitCode = Some(0)
    /\ Truthy(pid)
    /\ info = None
    /\ Printed("no_info")
    /\ ~Asked

\* C4 as stated: kill_process never raises, returns true only when the
\* command exits with status 0, and returns false together with a printed
\* diagnostic on a non-zero exit, on a timeout and on any other error.
C4_AlwaysDiagnostic ==
    killRes.outcome # "none" =>
        /\ ~killRes.raised
        /\ killRes.ret <=> killRes.outcome = "exit0"
        /\ ~killRes.ret => killRes.printed # <<>>

\* C4 amended: kill_process never raises and returns true only when the
\* command exits with status 0; on a timeout and on any other invocation
\* error it prints a diagnostic and returns false; on a non-zero exit it
\* returns false and prints nothing itself (its caller main prints the
\* failure message).
C4_DiagnosticOnErrorsOnly ==
    killRes.outcome # "none" =>
        /\ ~killRes.raised
        /\ killRes.ret <=> killRes.outcome = "exit0"
        /\ killRes.outcome \in {"timeout", "oserror"} => killRes.printed = <<"kill_error">>
        /\ killRes.outcome \in {"exit0", "nonzero"} => killRes.printed = <<>>
        /\ killRes.outcome = "nonzero" => Printed("error_kill")
        /\ Printed("ok_killed") <=> killRes.ret

C4_Witness ==
    /\ killRes.outcome = "nonzero"
    /\ ~killRes.ret
    /\ Printed("error_kill")

\* C5: a pid returned by find_process_on_port owns a socket that is
\* listening and whose local port is exactly the target port; a missing,
\* hanging or unparseable tool yields none.
C5_ListeningOnExactPort ==
    pc = "returned" =>
        /\ pid # None =>
               \E k \in DOMAIN socks :
                   /\ socks[k].pid = pid[1]
                   /\ socks[k].state = "LISTENING"
                   /\ socks[k].local = port
        /\ tool \in {"missing", "timeout", "garbled"} => pid = None

LaunchRange == DEFAULT_PORT..(DEFAULT_PORT + DefaultMaxAttempts - 1)

LastProbeFree(p) ==
    LET ks == {k \in DOMAIN probes : probes[k].port = p}
    IN  ks # {} /\ probes[Max(ks)].free

\* C6: in both launchers the server is started on DEFAULT_PORT when the
\* first probe reports it free and otherwise on the port find_free_port
\* returned; that port is in 8000..8009 and its last probe reported it
\* free; when the search returns none the run exits with status 1 with no
\* server start and no browser thread.
C6_ResolvedPort ==
    /\ \A k \in DOMAIN trace :
           trace[k].ev = "launch" =>
               /\ trace[k].arg \in LaunchRange
               /\ LastProbeFree(trace[k].arg)
               /\ IF probes[1].free
                  THEN trace[k].arg = DEFAULT_PORT /\ Len(probes) = 1
                  ELSE free_port = Some(trace[k].arg)
    /\ (probes # <<>> /\ ~probes[1].free /\ free_port = None) =>
           /\ ~Happened("launch")
           /\ ~Happened("thread_start")
           /\ browser = "none"
           /\ pc \in {"search", "searched", "done"}
           /\ pc = "done" => exitCode = Some(1)

C6_Witness ==
    /\ Happened("launched")
    /\ PORT = DEFAULT_PORT + 3
    /\ Len(probes) = 5

\* C7: in both launchers the browser thread is started only after the
\* server was bound or launched, and never in a run where the launch fails.
C7_BrowserAfterLaunch ==
    /\ \A k \in DOMAIN trace :
           trace[k].ev = "thread_start" =>
               \E j \in 1..(k - 1) : trace[j].ev = "launched"
    /\ Happened("launch_failed") => ~Happened("thread_start")

\* C8: every run of the Port Reaper ends by printing a status message and
\* exiting with status 0; no failure propagates as an unhandled fault.
C8_AlwaysExitZero ==
    /\ pc # "fault"
    /\ Ended => (exitCode = Some(0) /\ Cardinality(Reached(Terminals \cup {{"no_info"}})) = 1)

\* C9: check_port_available returns false exactly when the connect
\* succeeds, true when it is refused or times out, and true, without
\* raising, when creating, configuring or connecting the socket raises.
C9_FailOpenProbe ==
    /\ pc = "fault" => trace[Len(trace)].ev # "probe"
    /\ \A k \in DOMAIN probes :
           /\ ~probes[k].free <=> probes[k].outcome = "connected"
           /\ probes[k].outcome \in {"refused", "timeout"} \cup RaisingOutcomes
                  => probes[k].free

C9_Witness ==
    \E k \in DOMAIN probes :
        /\ probes[k].outcome = "connect_raises"
        /\ probes[k].free
        /\ free_port = Some(probes[k].port)

NodeAbsent ==
    \E k \in DOMAIN trace :
        /\ trace[k].ev = "node_check"
        /\ trace[k].arg \in {"nonzero", "not_found", "timeout"}

\* C10: the tool-backed launcher exits with status 1 when node is absent,
\* having probed no port, started no browser thread and launched no
\* server, and when the free-port search fails; it exits with status 0
\* when interrupted while serving; the node check precedes the first probe.
C10_NodeLauncherExits ==
    variant = "node" =>
        /\ NodeAbsent =>
               /\ pc = "done" /\ exitCode = Some(1)
               /\ probes = <<>> /\ ~Happened("probe")
               /\ ~Happened("thread_start") /\ browser = "none"
               /\ ~Happened("launch")
        /\ (pc = "done" /\ probes # <<>> /\ ~probes[1].free /\ free_port = None) =>
               (exitCode = Some(1) /\ Printed("no_free_port"))
        /\ Happened("interrupt") =>
               (pc = "done" /\ exitCode = Some(0) /\ Happened("launched"))
        /\ \A k \in DOMAIN trace :
               trace[k].ev = "probe" =>
                   (k > 1 /\ trace[1].ev = "node_check" /\ trace[1].arg = "ok")

C10_Witness ==
    /\ variant = "node"
    /\ NodeAbsent
    /\ exitCode = Some(1)

====
